---- MODULE Spec2Model ----
(***************************************************************************)
(* flask_io_validator: the three view-function decorators of core.py       *)
(* (validate_url_vars, validate_request_body, validate_request_args) and   *)
(* the schema primitives of schemas.py.                                    *)
(*                                                                         *)
(* A decorated handler is fixed when the decorator is applied (Init); each *)
(* call of the transformed function is one action that reads the ambient   *)
(* request and ends by raising, by returning an error tuple or by calling  *)
(* the handler.                                                            *)
(***************************************************************************)
EXTENDS Integers, Sequences, FiniteSets, TLC

VARIABLES decorator, handler, pc, request, raised, response, calls, schema, engine

vars == <<decorator, handler, pc, request, raised, response, calls, schema, engine>>

(* Longest JSON list a request body carries in the model. *)
MaxListLen == 2

(***************************************************************************)
(* Python values.  Every value has the same shape: a str or an int carries *)
(* its text in v, a list carries its elements in items, and an instance of *)
(* a schema class carries the class name in t and its field values, in     *)
(* declaration order, in items.                                            *)
(***************************************************************************)
Atom(t, v) == [t |-> t, v |-> v, items |-> <<>>]

ListVal(xs) == [t |-> "list", v |-> "", items |-> xs]

InstanceVal(cls, xs) == [t |-> cls, v |-> "", items |-> xs]

EmptyMap == <<>>

DigitTexts == {"42", "7", "1"}

RECURSIVE ConcatAll(_)
ConcatAll(ss) == IF ss = <<>> THEN <<>> ELSE Head(ss) \o ConcatAll(Tail(ss))

RECURSIVE JoinStr(_, _)
JoinStr(sep, parts) ==
    IF parts = <<>> THEN ""
    ELSE IF Len(parts) = 1 THEN parts[1]
    ELSE parts[1] \o sep \o JoinStr(sep, Tail(parts))

Range(s) == {s[i] : i \in DOMAIN s}

(* The order in which the keys of a mapping are iterated. *)
KeyOrder == <<"self", "id", "name", "items", "extra", "request_body", "request_args", "return">>

KeysOf(m) == SelectSeq(KeyOrder, LAMBDA k : k \in DOMAIN m)

(* str() of a value and of a dict, as Python prints them. *)
Repr(val) ==
    LET one(a) == IF a.t = "str" THEN "'" \o a.v \o "'" ELSE a.v
    IN  IF val.t = "list"
        THEN "[" \o JoinStr(", ", [i \in DOMAIN val.items |-> one(val.items[i])]) \o "]"
        ELSE one(val)

ReprDict(m) ==
    LET ks == KeysOf(m)
    IN  "{" \o JoinStr(", ", [i \in DOMAIN ks |-> "'" \o ks[i] \o "': " \o Repr(m[ks[i]])]) \o "}"

(***************************************************************************)
(* consts.py: the two slot names and the reserved keywords.                *)
(***************************************************************************)
REQUEST_BODY_PARAM == "request_body"

REQUEST_ARGS_KWARG == "request_args"

RESERVED_KWARGS == {"self", REQUEST_BODY_PARAM, REQUEST_ARGS_KWARG}

(***************************************************************************)
(* schemas.py                                                              *)
(***************************************************************************)
ErrorType == [GENERIC |-> "generic_error", VALIDATION |-> "validation_error"]

None == "None"

APICallError(type, subtype, message) ==
    [type |-> type, subtype |-> subtype, message |-> message]

(***************************************************************************)
(* The annotation types of the model.  "int", "str", "list_int" and "dict" *)
(* are plain types; the three schema classes are pydantic models, two of   *)
(* them deriving from StrictBaseModel and one from pydantic.BaseModel.     *)
(***************************************************************************)
SchemaClasses == {"NameStrict", "ItemsStrict", "NameLoose"}

SchemaBase(cls) == IF cls = "NameLoose" THEN "BaseModel" ELSE "StrictBaseModel"

SchemaFields(cls) ==
    IF cls = "ItemsStrict" THEN << <<"items", "list_int">> >>
    ELSE << <<"name", "str">> >>

(* StrictBaseModel.Config.extra = Extra.forbid; pydantic.BaseModel ignores extras. *)
ForbidsExtra(base) == base = "StrictBaseModel"

(* The check with every class accepted, as issubclass(Schema, object) would. *)
IsBaseModelSubclass_AnyClass(t) == TRUE

(* issubclass(Schema, pydantic.BaseModel) *)
IsBaseModelSubclass(t) == t \in SchemaClasses

(***************************************************************************)
(* The schema engine: validation of one value against one annotation.      *)
(* A location is a tuple of elements, each a field name (kind "str") or a  *)
(* list index (kind "int").                                                *)
(***************************************************************************)
LocName(n) == <<"str", n>>

LocIndex(i) == <<"int", ToString(i)>>

EngineError(type, loc, msg) == [type |-> type, loc |-> loc, msg |-> msg]

IntErrors(loc, val) ==
    IF val.t = "int" THEN <<>>
    ELSE IF val.t = "str"
         THEN IF val.v \in DigitTexts THEN <<>>
              ELSE << EngineError("int_parsing", loc,
                        "Input should be a valid integer, unable to parse string as an integer") >>
         ELSE << EngineError("int_type", loc, "Input should be a valid integer") >>

IntCoerce(val) == Atom("int", val.v)

FieldErrors(type, name, val) ==
    IF type = "int" THEN IntErrors(<<LocName(name)>>, val)
    ELSE IF type = "str"
         THEN IF val.t = "str" THEN <<>>
              ELSE << EngineError("string_type", <<LocName(name)>>, "Input should be a valid string") >>
    ELSE IF type = "list_int"
         THEN IF val.t = "list"
              THEN ConcatAll([i \in DOMAIN val.items |->
                       IntErrors(<<LocName(name), LocIndex(i - 1)>>, val.items[i])])
              ELSE << EngineError("list_type", <<LocName(name)>>, "Input should be a valid list") >>
    ELSE IF type = "dict"
         THEN << EngineError("dict_type", <<LocName(name)>>, "Input should be a valid dictionary") >>
    ELSE << EngineError("model_type", <<LocName(name)>>, "Input should be a valid dictionary or instance") >>

FieldCoerce(type, val) ==
    IF type = "int" THEN IntCoerce(val)
    ELSE IF type = "list_int"
         THEN ListVal([i \in DOMAIN val.items |-> IntCoerce(val.items[i])])
    ELSE val

(***************************************************************************)
(* Instantiating a model: the errors in field declaration order, the undeclared  *)
(* keys after them when the model forbids extras, and the coerced data.    *)
(***************************************************************************)
FieldNames(fields) == {fields[i][1] : i \in DOMAIN fields}

(* The engine stopping at the first failing field. *)
ModelErrors_FirstOnly(fields, forbid, values) ==
    LET perField == [i \in DOMAIN fields |->
            IF fields[i][1] \in DOMAIN values
            THEN FieldErrors(fields[i][2], fields[i][1], values[fields[i][1]])
            ELSE << EngineError("missing", <<LocName(fields[i][1])>>, "Field required") >>]
        extraKeys == SelectSeq(KeysOf(values), LAMBDA k : k \notin FieldNames(fields))
        perExtra == [i \in DOMAIN extraKeys |->
            EngineError("extra_forbidden", <<LocName(extraKeys[i])>>, "Extra inputs are not permitted")]
        all == ConcatAll(perField) \o (IF forbid THEN perExtra ELSE <<>>)
    IN  IF all = <<>> THEN <<>> ELSE <<Head(all)>>

ModelErrors(fields, forbid, values) ==
    LET perField == [i \in DOMAIN fields |->
            IF fields[i][1] \in DOMAIN values
            THEN FieldErrors(fields[i][2], fields[i][1], values[fields[i][1]])
            ELSE << EngineError("missing", <<LocName(fields[i][1])>>, "Field required") >>]
        extraKeys == SelectSeq(KeysOf(values), LAMBDA k : k \notin FieldNames(fields))
        perExtra == [i \in DOMAIN extraKeys |->
            EngineError("extra_forbidden", <<LocName(extraKeys[i])>>, "Extra inputs are not permitted")]
    IN  ConcatAll(perField) \o (IF forbid THEN perExtra ELSE <<>>)

ModelData(fields, values) ==
    [n \in FieldNames(fields) |->
        LET i == CHOOSE j \in DOMAIN fields : fields[j][1] = n
        IN  FieldCoerce(fields[i][2], values[n])]

ModelInstance(cls, values) ==
    LET fields == SchemaFields(cls)
        data == ModelData(fields, values)
    IN  InstanceVal(cls, [i \in DOMAIN fields |-> data[fields[i][1]]])

(***************************************************************************)
(* A handler: its signature (parameter names in order), its annotations    *)
(* (name and type, in order, "return" last when the return type is         *)
(* annotated) and the value its body returns.                              *)
(***************************************************************************)
ParamOrder == <<"self", "id", "name", "request_body", "request_args">>

MkHandler(c, r, ret) ==
    LET annotated == SelectSeq(ParamOrder, LAMBDA n : c[n] \notin {"absent", "NoAnn"})
    IN  [params |-> SelectSeq(ParamOrder, LAMBDA n : c[n] # "absent"),
         annotations |-> [i \in DOMAIN annotated |-> <<annotated[i], c[annotated[i]]>>]
                         \o (IF r = "NoAnn" THEN <<>> ELSE << <<"return", r>> >>),
         ret |-> ret]

Parameters(h) == Range(h.params)

HasAnnotation(h, n) == n \in FieldNames(h.annotations)

AnnotationOf(h, n) ==
    LET i == CHOOSE j \in DOMAIN h.annotations : h.annotations[j][1] = n
    IN  h.annotations[i][2]

(***************************************************************************)
(* What one call of a transformed function leaves behind.                  *)
(***************************************************************************)
NoResponse == [kind |-> "none", errors |-> <<>>, status |-> 0, value |-> "none"]

NoSchema == [built |-> FALSE, fields |-> <<>>, forbid |-> FALSE]

NoEngine == [ran |-> FALSE, errors |-> <<>>]

BuiltSchema(fields, forbid) == [built |-> TRUE, fields |-> fields, forbid |-> forbid]

EngineRan(errors) == [ran |-> TRUE, errors |-> errors]

Outcome(r, resp, cs, sch, eng) ==
    [raised |-> r, response |-> resp, calls |-> cs, schema |-> sch, engine |-> eng]

Raise(exc, sch, eng) == Outcome(exc, NoResponse, <<>>, sch, eng)

\* return decorated_f(args, new_kwargs)
CallHandler(h, args, new_kwargs, sch, eng) ==
    Outcome("none",
            [kind |-> "handler", errors |-> <<>>, status |-> 0, value |-> h.ret],
            << [args |-> args, kwargs |-> new_kwargs] >>,
            sch, eng)

(***************************************************************************)
(* The error tuple both decorators build from a ValidationError.           *)
(* ".".join(error["loc"]) raises TypeError when an element is not a str.   *)
(***************************************************************************)
LocIsJoinable(loc) == \A i \in DOMAIN loc : loc[i][1] = "str"

JoinLoc(loc) == JoinStr(".", [i \in DOMAIN loc |-> loc[i][2]])

(* The message without the field path. *)
ValidationErrorItem_NoPath(error) ==
    APICallError(ErrorType.VALIDATION, error.type, error.msg)

ValidationErrorItem(error) ==
    APICallError(ErrorType.VALIDATION, error.type, JoinLoc(error.loc) \o ": " \o error.msg)

ValidationFailure(errors, sch) ==
    IF \E i \in DOMAIN errors : ~LocIsJoinable(errors[i].loc)
    THEN Raise("TypeError", sch, EngineRan(errors))
    ELSE Outcome("none",
                 [kind |-> "error_list",
                  errors |-> [i \in DOMAIN errors |-> ValidationErrorItem(errors[i])],
                  status |-> 400, value |-> "none"],
                 <<>>, sch, EngineRan(errors))

(***************************************************************************)
(* validate_url_vars.transformed_f                                         *)
(***************************************************************************)
declared_url_vars(req) == req.url_rule_arguments

illegal_url_vars(req) == declared_url_vars(req) \cap RESERVED_KWARGS

(* The parameters with the reserved keywords left in. *)
non_reserved_params_KeepsReserved(h) == Parameters(h)

non_reserved_params(h) == Parameters(h) \ RESERVED_KWARGS

annotated_params(h) == SelectSeq(h.annotations, LAMBDA a : a[1] \notin RESERVED_KWARGS)

missing_annotations(h, req) == declared_url_vars(req) \ FieldNames(annotated_params(h))

(* The checks with the second and the third swapped. *)
StructuralError_SwappedChecks(h, req) ==
    IF illegal_url_vars(req) # {} THEN "ReservedKeywordError"
    ELSE IF non_reserved_params(h) \ declared_url_vars(req) # {} THEN "MissingURLVariableError"
    ELSE IF declared_url_vars(req) \ non_reserved_params(h) # {} THEN "MissingParameterError"
    ELSE IF missing_annotations(h, req) # {} THEN "MissingTypeHintError"
    ELSE "none"

StructuralError(h, req) ==
    IF illegal_url_vars(req) # {} THEN "ReservedKeywordError"
    ELSE IF declared_url_vars(req) \ non_reserved_params(h) # {} THEN "MissingParameterError"
    ELSE IF non_reserved_params(h) \ declared_url_vars(req) # {} THEN "MissingURLVariableError"
    ELSE IF missing_annotations(h, req) # {} THEN "MissingTypeHintError"
    ELSE "none"

(* The merge with the incoming keyword arguments winning. *)
MergeKwargs_IncomingWins(kwargs, validated) ==
    [n \in DOMAIN kwargs \cup DOMAIN validated |->
        IF n \in DOMAIN kwargs THEN kwargs[n] ELSE validated[n]]

\* new_kwargs: kwargs overridden by validated_values.dict()
MergeKwargs(kwargs, validated) ==
    [n \in DOMAIN kwargs \cup DOMAIN validated |->
        IF n \in DOMAIN validated THEN validated[n] ELSE kwargs[n]]

UrlVarsOutcome(h, req) ==
    LET err == StructuralError(h, req)
        fields == annotated_params(h)
        sch == BuiltSchema(fields, ForbidsExtra("StrictBaseModel"))
        errors == ModelErrors(fields, sch.forbid, req.view_args)
    IN  IF err # "none" THEN Raise(err, NoSchema, NoEngine)
        ELSE IF errors # <<>> THEN ValidationFailure(errors, sch)
        ELSE CallHandler(h, req.args,
                         MergeKwargs(req.kwargs, ModelData(fields, req.view_args)),
                         sch, EngineRan(<<>>))

(***************************************************************************)
(* validate_request_vals(param_name, request_vals_getter).transformed_f    *)
(***************************************************************************)
(* The injection keeping an incoming value under the slot name. *)
InjectSlot_KeepsIncoming(kwargs, param_name, request_vals) ==
    [n \in DOMAIN kwargs \cup {param_name} |->
        IF n \in DOMAIN kwargs THEN kwargs[n] ELSE request_vals]

\* new_kwargs: kwargs with param_name set to request_vals
InjectSlot(kwargs, param_name, request_vals) ==
    [n \in DOMAIN kwargs \cup {param_name} |->
        IF n = param_name THEN request_vals ELSE kwargs[n]]

UnexpectedValsError(param_name, vals) ==
    APICallError(ErrorType.VALIDATION, None,
                 param_name \o " is expected to be empty but got " \o ReprDict(vals))

RequestValsOutcome(param_name, vals, h, req) ==
    IF param_name \in Parameters(h)
    THEN IF ~HasAnnotation(h, param_name)
         THEN Raise("MissingTypeHintError", NoSchema, NoEngine)
         ELSE LET Schema == AnnotationOf(h, param_name)
                  sch == BuiltSchema(SchemaFields(Schema), ForbidsExtra(SchemaBase(Schema)))
                  errors == ModelErrors(sch.fields, sch.forbid, vals)
              IN  IF ~IsBaseModelSubclass(Schema) THEN Raise("TypeError", NoSchema, NoEngine)
                  ELSE IF errors # <<>> THEN ValidationFailure(errors, sch)
                  ELSE CallHandler(h, req.args,
                                   InjectSlot(req.kwargs, param_name, ModelInstance(Schema, vals)),
                                   sch, EngineRan(<<>>))
    ELSE LET sch == BuiltSchema(<<>>, ForbidsExtra("StrictBaseModel"))
             errors == ModelErrors(sch.fields, sch.forbid, vals)
         IN  IF errors # <<>>
             THEN Outcome("none",
                          [kind |-> "error_object",
                           errors |-> << UnexpectedValsError(param_name, vals) >>,
                           status |-> 400, value |-> "none"],
                          <<>>, sch, EngineRan(errors))
             ELSE CallHandler(h, req.args, req.kwargs, sch, EngineRan(<<>>))

(* lambda: request.get_json() or dict() *)
BodyGetter(req) == IF req.has_json /\ req.json # EmptyMap THEN req.json ELSE EmptyMap

(* lambda: dict(request.args): each key with the first of its values *)
ArgsGetter(req) == [k \in DOMAIN req.query |-> Head(req.query[k])]

(***************************************************************************)
(* The handlers and the requests the model draws from.                     *)
(***************************************************************************)
UrlHandlers ==
    { MkHandler(c, r, "handler_result") :
        c \in [self : {"absent", "NoAnn"},
               id : {"absent", "NoAnn", "int", "str"},
               name : {"absent", "NoAnn", "int", "str"},
               request_body : {"absent", "NameStrict"},
               request_args : {"absent"}],
        r \in {"NoAnn", "dict"} }

SlotAnnotations == {"absent", "NoAnn", "int", "NameStrict", "NameLoose", "ItemsStrict"}

BodyHandlers ==
    { MkHandler(c, "NoAnn", "handler_result") :
        c \in [self : {"absent"}, id : {"absent", "int"}, name : {"absent"},
               request_body : SlotAnnotations, request_args : {"absent"}] }

ArgsHandlers ==
    { MkHandler(c, "NoAnn", "handler_result") :
        c \in [self : {"absent"}, id : {"absent", "int"}, name : {"absent"},
               request_body : {"absent"}, request_args : SlotAnnotations] }

(* The mappings from some of the keys, each key to one of its values. *)
Maps(keys, V) ==
    UNION { { f \in [d -> UNION {V[k] : k \in d}] : \A k \in d : f[k] \in V[k] } :
            d \in SUBSET keys }

SeqsUpTo(S, n) == UNION { [1..m -> S] : m \in 0..n }

UrlValues == {Atom("str", "42"), Atom("str", "abc"), Atom("int", "7")}

JsonValues ==
    [k \in {"name", "items", "extra"} |->
        IF k = "name" THEN {Atom("str", "a"), Atom("int", "7")}
        ELSE IF k = "items"
             THEN {ListVal(xs) : xs \in SeqsUpTo({Atom("str", "1"), Atom("str", "x")}, MaxListLen)}
                  \cup {Atom("str", "nolist")}
        ELSE {Atom("int", "1")}]

(* request.args: each key with the list of its values. *)
QueryValues ==
    [k \in {"name", "extra"} |-> SeqsUpTo({Atom("str", "a"), Atom("str", "b")}, 2) \ {<<>>}]

KwargValues ==
    [k \in {"id", REQUEST_BODY_PARAM, REQUEST_ARGS_KWARG} |-> {Atom("str", "kw_" \o k)}]

PositionalArgs == {<<>>, <<Atom("str", "pos0")>>}

EmptyRequest ==
    [url_rule_arguments |-> {}, view_args |-> EmptyMap, args |-> <<>>, kwargs |-> EmptyMap,
     has_json |-> FALSE, json |-> EmptyMap, query |-> EmptyMap]

TypeOK ==
    /\ decorator \in {"validate_url_vars", "validate_request_body", "validate_request_args"}
    /\ pc \in {"ready", "returned"}
    /\ raised \in {"none", "ReservedKeywordError", "MissingParameterError",
                   "MissingURLVariableError", "MissingTypeHintError", "TypeError"}
    /\ response.kind \in {"none", "error_list", "error_object", "handler"}
    /\ Len(calls) <= 1

Init ==
    /\ decorator \in {"validate_url_vars", "validate_request_body", "validate_request_args"}
    /\ handler \in (IF decorator = "validate_url_vars" THEN UrlHandlers
                    ELSE IF decorator = "validate_request_body" THEN BodyHandlers
                    ELSE ArgsHandlers)
    /\ pc = "ready"
    /\ request = EmptyRequest
    /\ raised = "none"
    /\ response = NoResponse
    /\ calls = <<>>
    /\ schema = NoSchema
    /\ engine = NoEngine

Finish(req, out) ==
    /\ request' = req
    /\ raised' = out.raised
    /\ response' = out.response
    /\ calls' = out.calls
    /\ schema' = out.schema
    /\ engine' = out.engine
    /\ pc' = "returned"
    /\ UNCHANGED <<decorator, handler>>

(* One call of validate_url_vars(handler) under a request of the framework. *)
ValidateUrlVars ==
    /\ pc = "ready"
    /\ decorator = "validate_url_vars"
    /\ \E declared \in SUBSET {"self", "id", "name"} :
       \E view_args \in [declared -> UrlValues] :
       \E kwargs \in Maps(Parameters(handler) \cap {"id", "request_body"}, KwargValues) :
       \E args \in PositionalArgs :
          LET req == [EmptyRequest EXCEPT !.url_rule_arguments = declared,
                                          !.view_args = view_args,
                                          !.args = args, !.kwargs = kwargs]
          IN  Finish(req, UrlVarsOutcome(handler, req))

(* One call of validate_request_body(handler). *)
ValidateRequestBody ==
    /\ pc = "ready"
    /\ decorator = "validate_request_body"
    /\ \E has_json \in BOOLEAN :
       \E json \in (IF has_json THEN Maps({"name", "items", "extra"}, JsonValues) ELSE {EmptyMap}) :
       \E kwargs \in Maps(Parameters(handler) \cap {"id", REQUEST_BODY_PARAM}, KwargValues) :
       \E args \in PositionalArgs :
          LET req == [EmptyRequest EXCEPT !.has_json = has_json, !.json = json,
                                          !.args = args, !.kwargs = kwargs]
          IN  Finish(req, RequestValsOutcome(REQUEST_BODY_PARAM, BodyGetter(req), handler, req))

(* One call of validate_request_args(handler). *)
ValidateRequestArgs ==
    /\ pc = "ready"
    /\ decorator = "validate_request_args"
    /\ \E query \in Maps({"name", "extra"}, QueryValues) :
       \E kwargs \in Maps(Parameters(handler) \cap {"id", REQUEST_ARGS_KWARG}, KwargValues) :
       \E args \in PositionalArgs :
          LET req == [EmptyRequest EXCEPT !.query = query, !.args = args, !.kwargs = kwargs]
          IN  Finish(req, RequestValsOutcome(REQUEST_ARGS_KWARG, ArgsGetter(req), handler, req))

(* The framework is done with the request; the next one starts afresh. *)
NextRequest ==
    /\ pc = "returned"
    /\ pc' = "ready"
    /\ request' = EmptyRequest
    /\ raised' = "none"
    /\ response' = NoResponse
    /\ calls' = <<>>
    /\ schema' = NoSchema
    /\ engine' = NoEngine
    /\ UNCHANGED <<decorator, handler>>

Next == ValidateUrlVars \/ ValidateRequestBody \/ ValidateRequestArgs \/ NextRequest

Spec == Init /\ [][Next]_vars

(***************************************************************************)
(* Properties.  Each is stated over what a finished call left behind.      *)
(***************************************************************************)
ConfigErrors == {"ReservedKeywordError", "MissingParameterError",
                 "MissingURLVariableError", "MissingTypeHintError"}

UrlCallReturned == pc = "returned" /\ decorator = "validate_url_vars"

ValsCallReturned == pc = "returned" /\ decorator \in {"validate_request_body", "validate_request_args"}

SlotName == IF decorator = "validate_request_body" THEN REQUEST_BODY_PARAM ELSE REQUEST_ARGS_KWARG

(* The raw mapping of the request part a request-part decorator looks at. *)
RawVals ==
    IF decorator = "validate_request_body"
    THEN (IF request.has_json THEN request.json ELSE EmptyMap)
    ELSE [k \in DOMAIN request.query |-> request.query[k][1]]

ReservedCollision == \E v \in request.url_rule_arguments : v \in RESERVED_KWARGS

MissingParameter == \E v \in request.url_rule_arguments : v \notin Parameters(handler)

MissingUrlVariable ==
    \E p \in Parameters(handler) : p \notin RESERVED_KWARGS /\ p \notin request.url_rule_arguments

MissingTypeHint == \E v \in request.url_rule_arguments : ~HasAnnotation(handler, v)

FirstFailingCheck ==
    IF ReservedCollision THEN "ReservedKeywordError"
    ELSE IF MissingParameter THEN "MissingParameterError"
    ELSE IF MissingUrlVariable THEN "MissingURLVariableError"
    ELSE IF MissingTypeHint THEN "MissingTypeHintError"
    ELSE "none"

(* C1: in validate_url_vars the error raised is that of the first of the four
   structural checks (reserved collision, missing parameter, missing URL
   variable, missing type hint) whose condition holds; it is raised, nothing is
   returned, no schema is built, no value is validated and the handler is not
   invoked. *)
C1_StructuralChecksInOrder ==
    (UrlCallReturned /\ FirstFailingCheck # "none") =>
        /\ raised = FirstFailingCheck
        /\ response = NoResponse
        /\ ~schema.built
        /\ ~engine.ran
        /\ calls = <<>>

C1_Witness ==
    /\ UrlCallReturned
    /\ MissingParameter /\ MissingUrlVariable /\ MissingTypeHint
    /\ raised = "MissingParameterError"

(* C2: when the handler's parameters minus the reserved keywords are exactly
   the route's declared variables and every parameter is annotated,
   validate_url_vars raises none of the four configuration errors. *)
C2_MatchingHandlerRaisesNoConfigError ==
    (/\ UrlCallReturned
     /\ Parameters(handler) \ RESERVED_KWARGS = request.url_rule_arguments
     /\ \A p \in Parameters(handler) : HasAnnotation(handler, p))
    => raised \notin ConfigErrors

C2_Witness ==
    /\ UrlCallReturned
    /\ Parameters(handler) \ RESERVED_KWARGS = request.url_rule_arguments
    /\ \A p \in Parameters(handler) : HasAnnotation(handler, p)
    /\ request.url_rule_arguments = {"id", "name"}
    /\ REQUEST_BODY_PARAM \in Parameters(handler)
    /\ raised = "none"

(* C3: in validate_url_vars, when the structural checks pass and the URL
   values fail validation, the handler is not invoked and the call returns
   (list of APICallError, 400), one error per engine error, each of type
   validation_error with the rule's name as subtype and the dotted field path,
   ": " and the rule's message as message. *)
C3_UrlValidationFailureShape ==
    (UrlCallReturned /\ FirstFailingCheck = "none" /\ engine.ran /\ engine.errors # <<>>) =>
        /\ raised = "none"
        /\ calls = <<>>
        /\ response.kind = "error_list"
        /\ response.status = 400
        /\ Len(response.errors) = Len(engine.errors)
        /\ \A i \in DOMAIN engine.errors :
              /\ response.errors[i].type = "validation_error"
              /\ response.errors[i].subtype = engine.errors[i].type
              /\ response.errors[i].message =
                    JoinStr(".", [j \in DOMAIN engine.errors[i].loc |-> engine.errors[i].loc[j][2]])
                    \o ": " \o engine.errors[i].msg

C3_Witness ==
    /\ UrlCallReturned
    /\ ~HasAnnotation(handler, "return")
    /\ request.url_rule_arguments = {"id"}
    /\ request.view_args["id"] = Atom("str", "abc")
    /\ response.status = 400
    /\ response.errors = << [type |-> "validation_error", subtype |-> "int_parsing",
                             message |-> "id: Input should be a valid integer, unable to parse string as an integer"] >>

(* C4: in validate_url_vars, when the structural checks and the validation
   pass, the handler is invoked exactly once with the original positional
   arguments and with the incoming keyword arguments overridden by the
   coerced URL values, and the wrapper returns the handler's return value. *)
C4_UrlSuccessMergesValidatedValues ==
    (UrlCallReturned /\ FirstFailingCheck = "none" /\ engine.ran /\ engine.errors = <<>>) =>
        /\ raised = "none"
        /\ Len(calls) = 1
        /\ calls[1].args = request.args
        /\ DOMAIN calls[1].kwargs = DOMAIN request.kwargs \cup DOMAIN request.view_args
        /\ \A n \in DOMAIN request.view_args :
              /\ calls[1].kwargs[n].t = AnnotationOf(handler, n)
              /\ calls[1].kwargs[n].v = request.view_args[n].v
        /\ \A n \in DOMAIN request.kwargs \ DOMAIN request.view_args :
              calls[1].kwargs[n] = request.kwargs[n]
        /\ response.kind = "handler"
        /\ response.value = handler.ret

C4_Witness ==
    /\ UrlCallReturned
    /\ Len(calls) = 1
    /\ Len(request.args) = 1
    /\ DOMAIN request.kwargs = {"id", "request_body"}
    /\ request.view_args["id"] = Atom("str", "42")
    /\ calls[1].kwargs["id"] = Atom("int", "42")
    /\ calls[1].kwargs["id"] # request.kwargs["id"]
    /\ response.value = handler.ret

SlotDeclared == SlotName \in Parameters(handler)

SlotAnnotated == HasAnnotation(handler, SlotName)

IsStrictSchemaType(t) == t \in SchemaClasses /\ SchemaBase(t) = "StrictBaseModel"

ConfigurationErrorRaised ==
    /\ raised \in {"MissingTypeHintError", "TypeError"}
    /\ response = NoResponse
    /\ ~engine.ran
    /\ calls = <<>>

(* C5 as stated: in validate_request_vals, when the handler declares the slot
   parameter and its annotation is missing or is anything other than a strict
   schema type, a configuration error is raised, the extracted values are not
   validated and the handler is not invoked. *)
C5_Original ==
    (/\ ValsCallReturned
     /\ SlotDeclared
     /\ (~SlotAnnotated \/ ~IsStrictSchemaType(AnnotationOf(handler, SlotName))))
    => ConfigurationErrorRaised

(* C5 as amended: in validate_request_vals, when the handler declares the slot
   parameter and its annotation is missing (MissingTypeHintError) or is not a
   subclass of the schema engine's base model, strict or not (TypeError), the
   error is raised, the extracted values are not validated and the handler is
   not invoked. *)
C5_SlotAnnotationMustBeBaseModel ==
    (ValsCallReturned /\ SlotDeclared) =>
        /\ ~SlotAnnotated => (ConfigurationErrorRaised /\ raised = "MissingTypeHintError")
        /\ (SlotAnnotated /\ AnnotationOf(handler, SlotName) \notin SchemaClasses)
              => (ConfigurationErrorRaised /\ raised = "TypeError")

C5_Witness ==
    /\ ValsCallReturned
    /\ SlotDeclared
    /\ SlotAnnotated
    /\ AnnotationOf(handler, SlotName) = "int"
    /\ RawVals # EmptyMap
    /\ raised = "TypeError"

(* C6 as stated: in validate_request_vals, when the handler does not declare
   the slot parameter, the handler is invoked, with its arguments unchanged,
   exactly when the extracted mapping is empty; otherwise the call returns 400
   with one APICallError object of type generic_error whose message names the
   slot and the unexpected value. *)
C6_Original ==
    (ValsCallReturned /\ ~SlotDeclared) =>
        /\ raised = "none"
        /\ (calls # <<>>) <=> (RawVals = EmptyMap)
        /\ RawVals = EmptyMap =>
              /\ calls = << [args |-> request.args, kwargs |-> request.kwargs] >>
              /\ response.value = handler.ret
        /\ RawVals # EmptyMap =>
              /\ response.status = 400
              /\ response.kind = "error_object"
              /\ Len(response.errors) = 1
              /\ response.errors[1].type = "generic_error"
              /\ response.errors[1].message =
                    SlotName \o " is expected to be empty but got " \o ReprDict(RawVals)

(* C7 as stated: in validate_request_vals, when the slot is declared with a
   schema annotation and the extracted values fail validation, then whatever
   the failing fields' location paths (list indices included) no exception is
   raised, the handler is not invoked and the call returns (list of
   APICallError of type validation_error, 400), one per engine error. *)
C7_Original ==
    (/\ ValsCallReturned
     /\ SlotDeclared /\ SlotAnnotated
     /\ AnnotationOf(handler, SlotName) \in SchemaClasses
     /\ engine.ran /\ engine.errors # <<>>)
    => /\ raised = "none"
       /\ calls = <<>>
       /\ response.kind = "error_list"
       /\ response.status = 400
       /\ Len(response.errors) = Len(engine.errors)
       /\ \A i \in DOMAIN response.errors :
             /\ response.errors[i].type = "validation_error"
             /\ response.errors[i].subtype = engine.errors[i].type

(* C8: in validate_request_vals, when the slot is declared and the extracted
   values validate against its schema, the handler is invoked exactly once with
   the original positional arguments and with the incoming keyword arguments
   except that the slot name maps to the validated instance; the wrapper
   returns the handler's return value. *)
C8_SlotInjectedOnSuccess ==
    (/\ ValsCallReturned
     /\ SlotDeclared /\ SlotAnnotated
     /\ AnnotationOf(handler, SlotName) \in SchemaClasses
     /\ engine.ran /\ engine.errors = <<>>)
    => /\ raised = "none"
       /\ Len(calls) = 1
       /\ calls[1].args = request.args
       /\ DOMAIN calls[1].kwargs = DOMAIN request.kwargs \cup {SlotName}
       /\ calls[1].kwargs[SlotName].t = AnnotationOf(handler, SlotName)
       /\ LET fields == SchemaFields(AnnotationOf(handler, SlotName))
              inst == calls[1].kwargs[SlotName]
          IN  /\ Len(inst.items) = Len(fields)
              /\ \A i \in DOMAIN fields :
                    /\ inst.items[i].v = RawVals[fields[i][1]].v
                    /\ Len(inst.items[i].items) = Len(RawVals[fields[i][1]].items)
       /\ \A n \in DOMAIN request.kwargs \ {SlotName} : calls[1].kwargs[n] = request.kwargs[n]
       /\ response.kind = "handler"
       /\ response.value = handler.ret

C8_Witness ==
    /\ ValsCallReturned
    /\ Len(calls) = 1
    /\ DOMAIN request.kwargs = {"id", SlotName}
    /\ calls[1].kwargs[SlotName] # request.kwargs[SlotName]
    /\ calls[1].kwargs[SlotName].t = "NameStrict"
    /\ calls[1].kwargs["id"] = request.kwargs["id"]
    /\ Len(request.args) = 1

(* A URL value that does not satisfy its declared type, and the name of the
   coercion failure it causes. *)
UrlValueFails(n) ==
    /\ n \in DOMAIN request.view_args
    /\ HasAnnotation(handler, n)
    /\ \/ AnnotationOf(handler, n) = "int" /\ request.view_args[n].t = "str"
          /\ request.view_args[n].v \notin DigitTexts
       \/ AnnotationOf(handler, n) = "str" /\ request.view_args[n].t # "str"

CoercionFailure(n) == IF AnnotationOf(handler, n) = "int" THEN "int_parsing" ELSE "string_type"

FailingUrlVars == {n \in request.url_rule_arguments : UrlValueFails(n)}

(* C9 as stated, for the handlers that do not annotate their return type:
   when the structural checks of validate_url_vars pass and the URL values do
   not satisfy the declared types, the result is 400 with exactly one
   APICallError, whose subtype names the coercion failure. *)
C9_Original ==
    (/\ UrlCallReturned /\ FirstFailingCheck = "none"
     /\ ~HasAnnotation(handler, "return")
     /\ FailingUrlVars # {})
    => /\ response.status = 400
       /\ Len(response.errors) = 1
       /\ \E n \in FailingUrlVars : response.errors[1].subtype = CoercionFailure(n)

(* C9 as amended: when the structural checks of validate_url_vars pass and
   some URL values do not satisfy their declared types, the result is 400 with
   a list that holds, for each such URL variable, exactly one APICallError,
   whose subtype names that variable's coercion failure. *)
C9_OneErrorPerFailingUrlVar ==
    (UrlCallReturned /\ FirstFailingCheck = "none" /\ FailingUrlVars # {}) =>
        /\ response.status = 400
        /\ response.kind = "error_list"
        /\ Len(response.errors) = Len(engine.errors)
        /\ \A n \in FailingUrlVars :
              LET hits == {i \in DOMAIN engine.errors : engine.errors[i].loc = <<LocName(n)>>}
              IN  /\ Cardinality(hits) = 1
                  /\ \A i \in hits : /\ i \in DOMAIN response.errors
                                     /\ response.errors[i].subtype = CoercionFailure(n)

C9_Witness ==
    /\ UrlCallReturned
    /\ FailingUrlVars = {"id", "name"}
    /\ ~HasAnnotation(handler, "return")
    /\ response.status = 400
    /\ Len(response.errors) = 2
    /\ response.errors[1].subtype = "int_parsing"
    /\ response.errors[2].subtype = "string_type"

(* C10 as stated: in validate_url_vars, whenever the four structural checks
   pass, the required fields of the schema built for the call are exactly the
   handler's non-reserved parameters, also for a handler that annotates its
   return type, so a request whose URL values satisfy every declared type
   reaches the handler and is not rejected with 400. *)
C10_Original ==
    (UrlCallReturned /\ FirstFailingCheck = "none") =>
        /\ schema.built
        /\ FieldNames(schema.fields) = Parameters(handler) \ RESERVED_KWARGS
        /\ FieldNames(schema.fields) = request.url_rule_arguments
        /\ FailingUrlVars = {} => (Len(calls) = 1 /\ response.status # 400)

====
